---- MODULE Spec2Model ----
(***************************************************************************)
(* Model of simpysermon.py: main() walks the hosts of hosts.yaml, resolves *)
(* each host's IP, and probes every declared service with                  *)
(* test_connection(), collecting one table row per probed service.         *)
(*                                                                         *)
(* main() and test_connection() are sequential; pc is the position in the  *)
(* code.  The calls made to the socket library are recorded in syscalls,   *)
(* the lines printed by print_error() in errors.                           *)
(***************************************************************************)
EXTENDS Integers, Sequences, FiniteSets

(* ---- bounds of the inventory: hosts, and services over all hosts ---- *)
MaxHosts == 2
MaxTotal == 2

(* ---- values ---- *)
None == "<None>"
LiteralIPs == {"192.0.2.1"}
ResolvedIPs == {"198.51.100.7"}
FQDNs == {"host.example"}
Protocols == {"tcp", "udp", "icmp"}
Ports == {80}
Timeouts == {2, -1}
ECONNREFUSED == 111
ConnectCodes == {0, ECONNREFUSED}

VARIABLES
    hosts,        \* json_data["hosts"]
    timeout,      \* json_data["config"]["timeout"]
    pc,           \* position in main() / test_connection()
    hi,           \* index of host_data in the loop of line 87
    si,           \* index of the service in the loop of line 102
    ip,           \* main()'s local ip
    sock,         \* test_connection()'s local sock: "unbound", "open", "closed"
    result,       \* test_connection()'s local result
    table,        \* rows of the PrettyTable
    printed,      \* what print(table) wrote, None before
    errors,       \* lines written by print_error()
    syscalls,     \* calls made to test_connection() and the socket module, in
                  \* order, each with its outcome
    openSockets   \* number of sockets created and not yet closed

vars == <<hosts, timeout, pc, hi, si, ip, sock, result, table, printed,
          errors, syscalls, openSockets>>

(* ---- the inventories the run is started on ---- *)
ServiceSpecs == [port : Ports, protocol : Protocols]

NonEmptySeqs(S, n) == UNION {[1..k -> S] : k \in 1..n}

HostSpecs(n) == [ip : LiteralIPs \cup {None},
                 fqdn : FQDNs \cup {None},
                 services : NonEmptySeqs(ServiceSpecs, n)]

RECURSIVE SumServices(_, _)
SumServices(hs, n) ==
    IF n = 0 THEN 0 ELSE Len(hs[n].services) + SumServices(hs, n - 1)

TotalServices(hs) == SumServices(hs, Len(hs))

RECURSIVE InventoriesOf(_)
InventoriesOf(k) ==
    IF k = 0
    THEN {<< >>}
    ELSE UNION {{Append(hs, h) : h \in HostSpecs(MaxTotal - TotalServices(hs))} :
                  hs \in InventoriesOf(k - 1)}

Inventories == UNION {InventoriesOf(k) : k \in 1..MaxHosts}

(* ---- pieces of main() ---- *)

(* line 96 *)
NeedsLookup_WheneverFQDN(i, f) == f # None

NeedsLookup(i, f) == (i = None) /\ (f # None)

(* line 93 *)
NoIdentity(i, f) == (i = None) /\ (f = None)

(* lines 97-100: the lookup's exception is caught and the host goes on *)
AfterResolve_Abort(a) == IF a = None THEN "crashed" ELSE "service"

AfterResolve(a) == "service"

(* line 106 *)
ValidProtocol_Any(p) == TRUE

ValidProtocol(p) == p \in {"tcp", "udp"}

(* lines 109-112 *)
Status(r) == IF r THEN "OK" ELSE "KO"

(* line 114 *)
add_row_Prepend(t, row) == <<row>> \o t

add_row_OnlyOK(t, row) == IF row.status = "OK" THEN Append(t, row) ELSE t

add_row(t, row) == Append(t, row)

(* line 102: the loop takes the next service whatever the probe returned *)
NextService_RetryFailed(s, r) == IF r THEN s + 1 ELSE s

NextService(s, r) == s + 1

(* ---- pieces of test_connection() ---- *)

(* lines 31-34 *)
sock_type(p) == IF p = "udp" THEN "SOCK_DGRAM" ELSE "SOCK_STREAM"

(* line 42 *)
ConnectSucceeded_Truthy(code) == code # 0

ConnectSucceeded(code) == code = 0

(* line 40: socket.settimeout() rejects a negative value *)
SetTimeoutRaises(t) == t < 0

(* line 42: connect_ex((None, port)) raises TypeError; a dotted quad is     *)
(* always accepted                                                         *)
ConnectRaises(i) == i = None

(* lines 36-39: the body starts with the socket, whatever the host is *)
FirstStep_SkipAbsentIP(i) == IF i = None THEN "return" ELSE "socket"

FirstStep(i) == "socket"

(* lines 43-46: the handler falls into the finally clause *)
AfterExcept_NoFinally == "return"

AfterExcept == "finally"

Host == hosts[hi]
Service == hosts[hi].services[si]

(* an entry of syscalls: the call, the service it is made for, the ip of     *)
(* main(), whether the call raised and, for connect_ex(), the code returned *)
Call(op, arg, raised, ret) ==
    [op |-> op, h |-> hi, s |-> si, ip |-> ip, arg |-> arg,
     raised |-> raised, ret |-> ret]

Init ==
    /\ hosts \in Inventories
    /\ timeout \in Timeouts
    /\ pc = "host"
    /\ hi = 1
    /\ si = 1
    /\ ip = None
    /\ sock = "unbound"
    /\ result = FALSE
    /\ table = <<>>
    /\ printed = None
    /\ errors = <<>>
    /\ syscalls = <<>>
    /\ openSockets = 0

(* lines 87-100: take the next host and settle its ip *)
BeginHost ==
    /\ pc = "host"
    /\ hi <= Len(hosts)
    /\ LET i == Host.ip
           f == Host.fqdn
       IN  \/ /\ NoIdentity(i, f)
              /\ ip' = i
              /\ errors' = Append(errors, [kind |-> "no identity", h |-> hi, s |-> 0])
              /\ UNCHANGED syscalls
           \/ /\ NeedsLookup(i, f)
              /\ \E a \in ResolvedIPs \cup {None} :
                    /\ ip' = a
                    /\ errors' = IF a = None
                                 THEN Append(errors, [kind |-> "lookup", h |-> hi, s |-> 0])
                                 ELSE errors
                    /\ syscalls' = Append(syscalls,
                          [op |-> "gethostbyname", h |-> hi, s |-> 0, ip |-> i,
                           arg |-> f, raised |-> (a = None), ret |-> 0])
           \/ /\ ~NoIdentity(i, f)
              /\ ~NeedsLookup(i, f)
              /\ ip' = i
              /\ UNCHANGED <<errors, syscalls>>
    /\ si' = 1
    /\ pc' = AfterResolve(ip')
    /\ UNCHANGED <<hosts, timeout, hi, sock, result, table, printed, openSockets>>

(* line 102: the services of the host are exhausted *)
EndServices ==
    /\ pc = "service"
    /\ si > Len(Host.services)
    /\ hi' = hi + 1
    /\ pc' = "host"
    /\ UNCHANGED <<hosts, timeout, si, ip, sock, result, table, printed,
                   errors, syscalls, openSockets>>

(* lines 103-107: a protocol that is neither tcp nor udp *)
InvalidProtocol ==
    /\ pc = "service"
    /\ si <= Len(Host.services)
    /\ ~ValidProtocol(Service.protocol)
    /\ errors' = Append(errors, [kind |-> "invalid protocol", h |-> hi, s |-> si])
    /\ si' = si + 1
    /\ UNCHANGED <<hosts, timeout, pc, hi, ip, sock, result, table, printed,
                   syscalls, openSockets>>

(* lines 103-109, 31-36: test_connection(ip, port, protocol, timeout) is entered *)
CallTestConnection ==
    /\ pc = "service"
    /\ si <= Len(Host.services)
    /\ ValidProtocol(Service.protocol)
    /\ result' = FALSE
    /\ sock' = "unbound"
    /\ syscalls' = Append(syscalls, Call("test_connection", Service.protocol, FALSE, 0))
    /\ pc' = FirstStep(ip)
    /\ UNCHANGED <<hosts, timeout, hi, si, ip, table, printed, errors, openSockets>>

(* line 39: socket.socket(AF_INET, sock_type) returns a socket or raises OSError *)
CreateSocket ==
    /\ pc = "socket"
    /\ \E ok \in BOOLEAN :
          IF ok
          THEN /\ sock' = "open"
               /\ openSockets' = openSockets + 1
               /\ syscalls' = Append(syscalls,
                     Call("socket", sock_type(Service.protocol), FALSE, 0))
               /\ pc' = "settimeout"
          ELSE /\ syscalls' = Append(syscalls,
                     Call("socket", sock_type(Service.protocol), TRUE, 0))
               /\ pc' = "except"
               /\ UNCHANGED <<sock, openSockets>>
    /\ UNCHANGED <<hosts, timeout, hi, si, ip, result, table, printed, errors>>

(* line 40: sock.settimeout(timeout) *)
SetTimeout ==
    /\ pc = "settimeout"
    /\ IF SetTimeoutRaises(timeout)
       THEN /\ syscalls' = Append(syscalls, Call("settimeout", timeout, TRUE, 0))
            /\ pc' = "except"
       ELSE /\ syscalls' = Append(syscalls, Call("settimeout", timeout, FALSE, 0))
            /\ pc' = "connect"
    /\ UNCHANGED <<hosts, timeout, hi, si, ip, sock, result, table, printed,
                   errors, openSockets>>

(* line 42: result = sock.connect_ex((host, port)) == 0.  connect_ex returns  *)
(* the error code of the connection for an address it can use (the literal *)
(* and resolved addresses of the inventories are dotted quads); it raises  *)
(* TypeError, before connecting, when the host is None                     *)
Connect ==
    /\ pc = "connect"
    /\ \/ /\ ~ConnectRaises(ip)
          /\ \E code \in ConnectCodes :
                /\ syscalls' = Append(syscalls, Call("connect_ex", Service.port, FALSE, code))
                /\ result' = ConnectSucceeded(code)
          /\ pc' = "finally"
       \/ /\ ConnectRaises(ip)
          /\ syscalls' = Append(syscalls, Call("connect_ex", Service.port, TRUE, 0))
          /\ pc' = "except"
          /\ UNCHANGED result
    /\ UNCHANGED <<hosts, timeout, hi, si, ip, sock, table, printed, errors,
                   openSockets>>

(* lines 43-44: except Exception: print_error *)
Except ==
    /\ pc = "except"
    /\ errors' = Append(errors, [kind |-> "probe", h |-> hi, s |-> si])
    /\ pc' = AfterExcept
    /\ UNCHANGED <<hosts, timeout, hi, si, ip, sock, result, table, printed,
                   syscalls, openSockets>>

(* line 46: finally: sock.close().  With sock unbound the statement raises  *)
(* UnboundLocalError, which leaves test_connection() and main()             *)
Finally ==
    /\ pc = "finally"
    /\ IF sock = "unbound"
       THEN /\ pc' = "crashed"
            /\ UNCHANGED <<sock, openSockets, syscalls>>
       ELSE /\ sock' = "closed"
            /\ openSockets' = openSockets - 1
            /\ syscalls' = Append(syscalls, Call("close", None, FALSE, 0))
            /\ pc' = "return"
    /\ UNCHANGED <<hosts, timeout, hi, si, ip, result, table, printed, errors>>

(* lines 48, 109-114: return result; the row of the service is added *)
AddRow ==
    /\ pc = "return"
    /\ table' = add_row(table,
                        [name |-> hi, fqdn |-> Host.fqdn, ip |-> ip, service |-> si,
                         port |-> Service.port, protocol |-> Service.protocol,
                         status |-> Status(result)])
    /\ si' = NextService(si, result)
    /\ pc' = "service"
    /\ UNCHANGED <<hosts, timeout, hi, ip, sock, result, printed, errors,
                   syscalls, openSockets>>

(* line 116: print(table) *)
PrintTable ==
    /\ pc = "host"
    /\ hi > Len(hosts)
    /\ printed' = table
    /\ pc' = "done"
    /\ UNCHANGED <<hosts, timeout, hi, si, ip, sock, result, table, errors,
                   syscalls, openSockets>>

Next ==
    \/ BeginHost
    \/ EndServices
    \/ InvalidProtocol
    \/ CallTestConnection
    \/ CreateSocket
    \/ SetTimeout
    \/ Connect
    \/ Except
    \/ Finally
    \/ AddRow
    \/ PrintTable

Spec == Init /\ [][Next]_vars

TypeOK ==
    /\ pc \in {"host", "service", "socket", "settimeout", "connect", "except",
               "finally", "return", "done", "crashed"}
    /\ sock \in {"unbound", "open", "closed"}
    /\ result \in BOOLEAN
    /\ openSockets \in 0..1

(***************************************************************************)
(* Vocabulary of the properties                                            *)
(***************************************************************************)
Pairs == UNION {{<<h, s>> : s \in 1..Len(hosts[h].services)} : h \in 1..Len(hosts)}

ProtocolOf(p) == hosts[p[1]].services[p[2]].protocol

TcpOrUdp(p) == ProtocolOf(p) = "tcp" \/ ProtocolOf(p) = "udp"

(* the loops have gone past the service *)
Passed(p) == p[1] < hi \/ (p[1] = hi /\ pc # "host" /\ p[2] < si)

(* the loop of line 87 has settled the ip of the host *)
Begun(h) == h < hi \/ (h = hi /\ pc # "host")

RowsOf(t, p) == {k \in DOMAIN t : t[k].name = p[1] /\ t[k].service = p[2]}

CallsOf(op, p) ==
    {k \in DOMAIN syscalls :
        syscalls[k].op = op /\ syscalls[k].h = p[1] /\ syscalls[k].s = p[2]}

ReportedIn(errs, kind, h, s) ==
    \E k \in DOMAIN errs :
        errs[k].kind = kind /\ errs[k].h = h /\ errs[k].s = s

Reported(kind, h, s) == ReportedIn(errors, kind, h, s)

ResolutionFailedIn(errs, h) ==
    ReportedIn(errs, "lookup", h, 0) \/ ReportedIn(errs, "no identity", h, 0)

ResolutionFailed(h) == ResolutionFailedIn(errors, h)

InInputOrder(t) ==
    \A j, k \in DOMAIN t :
        j < k => \/ t[j].name < t[k].name
                 \/ (t[j].name = t[k].name /\ t[j].service < t[k].service)

(***************************************************************************)
(* C1 (as stated): every declared service the loops have gone past has     *)
(* exactly one row, a service with a protocol other than tcp/udp included, *)
(* and the printed table has as many rows as there are declared services.  *)
(***************************************************************************)
C1_OneRowPerDeclaredService ==
    /\ \A p \in Pairs : Passed(p) => Cardinality(RowsOf(table, p)) = 1
    /\ pc = "done" => Len(printed) = TotalServices(hosts)

(***************************************************************************)
(* C1 (amended): at every point of the run the table holds exactly one row *)
(* for each tcp/udp service the loops have gone past and no other row; a   *)
(* service with another protocol gets an error line and no row.  The       *)
(* printed table is that table.                                            *)
(***************************************************************************)
C1_OneRowPerProbedService ==
    /\ \A p \in Pairs :
          Cardinality(RowsOf(table, p)) = IF Passed(p) /\ TcpOrUdp(p) THEN 1 ELSE 0
    /\ Len(table) = Cardinality({p \in Pairs : Passed(p) /\ TcpOrUdp(p)})
    /\ \A p \in Pairs :
          (Passed(p) /\ ~TcpOrUdp(p)) => Reported("invalid protocol", p[1], p[2])
    /\ pc = "done" =>
          /\ printed = table
          /\ Len(printed) = Cardinality({p \in Pairs : TcpOrUdp(p)})

C1_Witness ==
    /\ pc = "done"
    /\ \E p, q \in Pairs : TcpOrUdp(p) /\ ~TcpOrUdp(q)
    /\ \E k \in DOMAIN printed : printed[k].status = "KO"
    /\ Len(printed) < TotalServices(hosts)

(***************************************************************************)
(* C2: the rows of the table, and of the printed table, are in input       *)
(* order: host index first, then service index within the host.            *)
(***************************************************************************)
C2_RowsInInputOrder ==
    /\ InInputOrder(table)
    /\ printed # None => InInputOrder(printed)

C2_Witness ==
    /\ pc = "done"
    /\ Len(printed) = 2
    /\ printed[1].name = 1 /\ printed[2].name = 2
    /\ printed[1].status = "KO" /\ printed[2].status = "OK"
    /\ ResolutionFailed(1)

(***************************************************************************)
(* C3 (as stated): no failure inside test_connection() escapes it, so the  *)
(* run is never terminated by an exception of a probe.                     *)
(***************************************************************************)
C3_NoFailureEscapesProbe == pc # "crashed"

(***************************************************************************)
(* C4: outside test_connection()'s try statement (in main(), at the return *)
(* of the probe, when the run has ended either way) no socket is open.     *)
(***************************************************************************)
C4_SocketClosedOnReturn ==
    pc \in {"host", "service", "return", "done", "crashed"} =>
        /\ openSockets = 0
        /\ sock # "open"

C4_Witness ==
    /\ pc = "return"
    /\ sock = "closed"
    /\ Reported("probe", hi, si)
    /\ \E k \in DOMAIN table : table[k].status = "OK"

(***************************************************************************)
(* C5: for a host that declares a literal ip no gethostbyname() call is    *)
(* made, and every call of its probes and every row of it carries exactly  *)
(* that ip, with or without an fqdn.                                       *)
(***************************************************************************)
C5_LiteralIPUsedUnchanged ==
    \A h \in 1..Len(hosts) :
        hosts[h].ip # None =>
            /\ \A k \in DOMAIN syscalls :
                  syscalls[k].h = h =>
                      /\ syscalls[k].op # "gethostbyname"
                      /\ syscalls[k].ip = hosts[h].ip
            /\ \A k \in DOMAIN table : table[k].name = h => table[k].ip = hosts[h].ip
            /\ (h = hi /\ pc \notin {"host", "done"}) => ip = hosts[h].ip

C5_Witness ==
    /\ pc = "done"
    /\ \E k \in DOMAIN printed :
          /\ hosts[printed[k].name].ip # None
          /\ hosts[printed[k].name].fqdn # None
          /\ printed[k].ip = hosts[printed[k].name].ip
    /\ \E k \in DOMAIN syscalls : syscalls[k].op = "gethostbyname"

(***************************************************************************)
(* C6: settling the ip of a host never ends the run, it always leads into  *)
(* the services of that host; and for a host whose resolution failed the   *)
(* ip is absent, every tcp/udp service the loop has gone past was probed   *)
(* once with the absent ip and has a KO row, every other service gone past *)
(* was reported as an error, and no row of the host is OK.                 *)
(***************************************************************************)
C6_State ==
    \A h \in 1..Len(hosts) :
        (Begun(h) /\ ResolutionFailed(h)) =>
            /\ h = hi => ip = None
            /\ \A k \in DOMAIN table :
                  table[k].name = h => table[k].status = "KO" /\ table[k].ip = None
            /\ \A p \in Pairs :
                  (p[1] = h /\ Passed(p)) =>
                      IF TcpOrUdp(p)
                      THEN /\ Cardinality(RowsOf(table, p)) = 1
                           /\ Cardinality(CallsOf("test_connection", p)) = 1
                           /\ \A k \in CallsOf("test_connection", p) :
                                 syscalls[k].ip = None
                      ELSE Reported("invalid protocol", p[1], p[2])

C6_Step ==
    (pc = "host" /\ hi <= Len(hosts)) =>
        /\ pc' = "service" /\ hi' = hi /\ si' = 1
        /\ (hosts[hi].ip = None /\ hosts[hi].fqdn = None) =>
              ResolutionFailedIn(errors', hi)
        /\ ResolutionFailedIn(errors', hi) => ip' = None

C6_ResolutionFailureIsolated == [](C6_State) /\ [][C6_Step]_vars

C6_Witness ==
    /\ pc = "done"
    /\ Len(hosts) = 2
    /\ Reported("lookup", 1, 0)
    /\ \E k \in DOMAIN printed : printed[k].name = 1 /\ printed[k].status = "KO"
    /\ \E k \in DOMAIN printed : printed[k].name = 2 /\ printed[k].status = "OK"

(***************************************************************************)
(* C7: a service whose protocol is neither tcp nor udp causes no call to   *)
(* test_connection() or the socket module; handling it only reports the    *)
(* error and moves to the next service of the same host; every service of  *)
(* the host gone past, before or after it, was evaluated (probed once if   *)
(* tcp/udp).                                                               *)
(***************************************************************************)
C7_State ==
    \A p \in Pairs :
        /\ ~TcpOrUdp(p) =>
              /\ \A k \in DOMAIN syscalls :
                    ~(syscalls[k].h = p[1] /\ syscalls[k].s = p[2])
              /\ RowsOf(table, p) = {}
        /\ (Passed(p) /\ TcpOrUdp(p)) =>
              /\ Cardinality(CallsOf("test_connection", p)) = 1
              /\ Cardinality(RowsOf(table, p)) = 1

C7_Step ==
    (pc = "service" /\ si <= Len(hosts[hi].services) /\ ~TcpOrUdp(<<hi, si>>)) =>
        /\ pc' = "service" /\ hi' = hi /\ si' = si + 1
        /\ syscalls' = syscalls /\ openSockets' = openSockets /\ table' = table
        /\ ReportedIn(errors', "invalid protocol", hi, si)

C7_InvalidProtocolSkipped == [](C7_State) /\ [][C7_Step]_vars

C7_Witness ==
    /\ pc = "service"
    /\ hi = 1
    /\ si = 3
    /\ ProtocolOf(<<1, 1>>) = "icmp"
    /\ Reported("invalid protocol", 1, 1)
    /\ Len(table) = 1
    /\ Cardinality(CallsOf("socket", <<1, 2>>)) = 1

(***************************************************************************)
(* C8: every row belongs to a tcp/udp service and its status is OK when    *)
(* the connect_ex() call of that service returned 0, and KO otherwise      *)
(* (another code, an exception in the probe, an absent ip).                *)
(***************************************************************************)
ConnectReturnedZero(p) ==
    \E k \in CallsOf("connect_ex", p) : ~syscalls[k].raised /\ syscalls[k].ret = 0

C8_StatusIsConnectOutcome ==
    /\ \A k \in DOMAIN table :
          LET p == <<table[k].name, table[k].service>>
          IN  /\ p \in Pairs
              /\ TcpOrUdp(p)
              /\ table[k].status = IF ConnectReturnedZero(p) THEN "OK" ELSE "KO"
    /\ pc = "return" => (result <=> ConnectReturnedZero(<<hi, si>>))

C8_Witness ==
    /\ pc = "done"
    /\ Len(printed) = 2
    /\ printed[1].status = "OK"
    /\ printed[2].status = "KO"
    /\ \E k \in CallsOf("connect_ex", <<printed[2].name, printed[2].service>>) :
          ~syscalls[k].raised /\ syscalls[k].ret = ECONNREFUSED

(***************************************************************************)
(* C9 (as stated): no socket is created and no connect call is made by a   *)
(* probe whose ip is absent.                                               *)
(***************************************************************************)
C9_AbsentIPNoSocketOperation ==
    \A k \in DOMAIN syscalls :
        syscalls[k].op \in {"socket", "settimeout", "connect_ex", "close"} =>
            syscalls[k].ip # None

(***************************************************************************)
(* C9 (amended): a probe whose ip is absent goes through the socket        *)
(* operations like any other: a probe that has returned made exactly one   *)
(* socket() call and closed that socket, and, unless settimeout() raised,  *)
(* made exactly one connect_ex() call; that call raises before connecting, *)
(* and the probe returns False (row KO), never True.                       *)
(***************************************************************************)
AbsentIPProbe(p) ==
    \E k \in CallsOf("test_connection", p) : syscalls[k].ip = None

C9_AbsentIPDoomedAttempt ==
    /\ \A k \in DOMAIN syscalls :
          (syscalls[k].op = "connect_ex" /\ syscalls[k].ip = None) =>
              syscalls[k].raised
    /\ \A p \in Pairs :
          (AbsentIPProbe(p) /\ (Passed(p) \/ (p = <<hi, si>> /\ pc = "return"))) =>
              /\ Cardinality(CallsOf("socket", p)) = 1
              /\ Cardinality(CallsOf("close", p)) = 1
              /\ Cardinality(CallsOf("connect_ex", p)) = IF timeout < 0 THEN 0 ELSE 1
              /\ \A k \in RowsOf(table, p) : table[k].status = "KO"
    /\ (pc = "return" /\ ip = None) => ~result

C9_Witness ==
    /\ pc = "return"
    /\ ip = None
    /\ ~result
    /\ \E k \in CallsOf("connect_ex", <<hi, si>>) :
          syscalls[k].ip = None /\ syscalls[k].raised
    /\ Cardinality(CallsOf("close", <<hi, si>>)) = 1

(***************************************************************************)
(* C10: a tcp/udp service is never probed twice: at most one call of       *)
(* test_connection(), socket() and connect_ex() each; once the loop has    *)
(* gone past it, it was probed exactly once, and, with a timeout that      *)
(* settimeout() accepts, exactly one connect_ex() call was made for it,    *)
(* whatever that call and the other probes returned.                       *)
(***************************************************************************)
C10_ProbedExactlyOnce ==
    \A p \in Pairs :
        /\ Cardinality(CallsOf("test_connection", p)) <= 1
        /\ Cardinality(CallsOf("socket", p)) <= 1
        /\ Cardinality(CallsOf("connect_ex", p)) <= 1
        /\ (Passed(p) /\ TcpOrUdp(p)) =>
              /\ Cardinality(CallsOf("test_connection", p)) = 1
              /\ Cardinality(CallsOf("socket", p)) = 1
              /\ timeout >= 0 => Cardinality(CallsOf("connect_ex", p)) = 1

C10_Witness ==
    /\ pc = "done"
    /\ Len(printed) = 2
    /\ \A k \in DOMAIN printed : printed[k].status = "KO"
    /\ \A p \in Pairs : Cardinality(CallsOf("connect_ex", p)) = 1
    /\ \E k \in DOMAIN syscalls : syscalls[k].ret = ECONNREFUSED
====
